---- MODULE Spec2Model ----
(***************************************************************************)
(* A model of src/src/lib.rs: the AvlNode rotation engine, the AvlTreeSet  *)
(* (new / insert / from_iter) and its in-order iterator AvlTreeSetIter.    *)
(*                                                                         *)
(* An AvlTree<T> = Option<Box<AvlNode<T>>> is a sequence of length 0       *)
(* (None) or 1 (Some(node)); a node is a record with the four fields of    *)
(* the struct.  T is instantiated with the naturals.                       *)
(***************************************************************************)
EXTENDS Naturals, Integers, Sequences, FiniteSets, TLC

VARIABLES
    root,   \* AvlTreeSet.root, or the tree a node operation is called on
    hist,   \* the values passed to insert so far, in call order
    op,     \* the last operation that completed
    arg,    \* the argument of the last insert
    ret,    \* the value the last operation returned (insert, rotate_*, rebalance)
    pre,    \* root as it was when the last mutating operation was called
    steps,  \* number of node operations applied so far
    iter,   \* the live AvlTreeSetIter: None, or Some([prev_nodes, current_tree])
    out,    \* the values the live iterator has returned so far, in order
    item,   \* what the last call of next() returned: None or Some(value)
    calls   \* number of calls of next() on the live iterator

vars == <<root, hist, op, arg, ret, pre, steps, iter, out, item, calls>>

(***************************************************************************)
(* Bounds of the model.                                                    *)
(***************************************************************************)
\* values offered to insert are 10, 20, ..., 10 * NumVals
NumVals == 4
\* at most MaxLen calls of insert on one set (from_iter's included)
MaxLen == 4
\* next() is called at most MaxExtraCalls times after the sequence is exhausted
MaxExtraCalls == 2
\* hand-built nodes with arbitrary cached heights have at most MaxNodes nodes
MaxNodes == 3
\* ... and cached heights in 0 .. MaxH
MaxH == 1
\* the lighter side of a node out of balance by 2 has height at most MaxK
MaxK == 1
\* at most MaxOps node operations are applied in a row to a hand-built node
MaxOps == 2
\* trees handed directly to the iterator have at most MaxIterNodes nodes
MaxIterNodes == 4

Values == {10 * i : i \in 1..NumVals}

(***************************************************************************)
(* The data model, lib.rs:12-20.                                           *)
(***************************************************************************)
None == <<>>

Some(x) == <<x>>

AvlNode(value, left, right, height) ==
    [value |-> value, left |-> left, right |-> right, height |-> height]

(***************************************************************************)
(* Reference notions the properties are stated with: the recursive         *)
(* in-order walk, the node count, the sorted sequence of a set (what a     *)
(* BTreeSet iterates), and the height of the data model (0 for an absent   *)
(* tree and for a leaf, 1 + max of the children otherwise).                *)
(***************************************************************************)
Max(a, b) == IF a >= b THEN a ELSE b

Min(a, b) == IF a <= b THEN a ELSE b

RECURSIVE InOrder(_)
InOrder(t) ==
    IF t = None THEN <<>>
    ELSE InOrder(t[1].left) \o <<t[1].value>> \o InOrder(t[1].right)

RECURSIVE Size(_)
Size(t) ==
    IF t = None THEN 0 ELSE 1 + Size(t[1].left) + Size(t[1].right)

Range(s) == {s[i] : i \in 1..Len(s)}

Members(t) == Range(InOrder(t))

RECURSIVE SortedSeq(_)
SortedSeq(S) ==
    IF S = {} THEN <<>>
    ELSE LET m == CHOOSE x \in S : \A y \in S : x <= y
         IN <<m>> \o SortedSeq(S \ {m})

RECURSIVE TrueHeight(_)
TrueHeight(t) ==
    IF t = None THEN 0
    ELSE IF t[1].left = None /\ t[1].right = None THEN 0
    ELSE 1 + Max(TrueHeight(t[1].left), TrueHeight(t[1].right))

\* the subtrees of t, t included, as a set of non-empty trees
RECURSIVE Subtrees(_)
Subtrees(t) ==
    IF t = None THEN {}
    ELSE {t} \cup Subtrees(t[1].left) \cup Subtrees(t[1].right)

\* t with every cached height erased: the shape and the values alone
RECURSIVE Strip(_)
Strip(t) ==
    IF t = None THEN None
    ELSE Some(AvlNode(t[1].value, Strip(t[1].left), Strip(t[1].right), 0))

(***************************************************************************)
(* AvlNode methods, lib.rs:32-139.  Each takes the node (a record) and     *)
(* returns the node after the call; the bool a method returns is modelled  *)
(* next to it.                                                             *)
(***************************************************************************)
left_height(self) ==
    IF self.left = None THEN 0 ELSE self.left[1].height

right_height(self) ==
    IF self.right = None THEN 0 ELSE self.right[1].height

update_height(self) ==
    [self EXCEPT !.height = Max(left_height(self), right_height(self)) + 1]

\* `as i8` of a usize: the low 8 bits, read as two's complement
AsI8(n) ==
    LET m == n % 256 IN IF m >= 128 THEN m - 256 ELSE m

balance_factor(self) ==
    LET lh == left_height(self)
        rh == right_height(self)
    IN  IF lh >= rh THEN AsI8(lh - rh) ELSE AsI8(0 - AsI8(rh - lh))

\* rotate_left without the value swap of line 66
rotate_left_noswap(self) ==
    IF self.right = None THEN [node |-> self, ret |-> FALSE]
    ELSE
        LET right_node       == self.right[1]
            new_left_node    == update_height(
                                    [right_node EXCEPT !.left = self.left,
                                                       !.right = right_node.left])
            self1            == [self EXCEPT !.left = Some(new_left_node),
                                             !.right = right_node.right]
        IN  [node |-> update_height(self1), ret |-> TRUE]

rotate_left(self) ==
    IF self.right = None THEN [node |-> self, ret |-> FALSE]
    ELSE
        LET right_node       == self.right[1]
            \* lines 62-63: both children are taken out of the right node
            right_left_tree  == right_node.left
            right_right_tree == right_node.right
            right_emptied    == [right_node EXCEPT !.left = None, !.right = None]
            \* line 65: mem::replace(&mut self.right, right_right_tree)
            new_left_tree0   == Some(right_emptied)
            self1            == [self EXCEPT !.right = right_right_tree]
            \* line 66: mem::swap of the two values
            self2            == [self1 EXCEPT !.value = new_left_tree0[1].value]
            new_left_node0   == [new_left_tree0[1] EXCEPT !.value = self1.value]
            \* line 68: self.left.take()
            left_tree        == self2.left
            self3            == [self2 EXCEPT !.left = None]
            \* lines 71-73
            new_left_node1   == [new_left_node0 EXCEPT !.right = right_left_tree]
            new_left_node2   == [new_left_node1 EXCEPT !.left = left_tree]
            self4            == [self3 EXCEPT !.left = Some(new_left_node2)]
            \* lines 75-77: the new left child's height first
            self5            == [self4 EXCEPT !.left = Some(update_height(self4.left[1]))]
        IN  \* line 79
            [node |-> update_height(self5), ret |-> TRUE]

rotate_right(self) ==
    IF self.left = None THEN [node |-> self, ret |-> FALSE]
    ELSE
        LET left_node        == self.left[1]
            \* lines 90-91
            left_left_tree   == left_node.left
            left_right_tree  == left_node.right
            left_emptied     == [left_node EXCEPT !.left = None, !.right = None]
            \* line 93: mem::replace(&mut self.left, left_left_tree)
            new_right_tree0  == Some(left_emptied)
            self1            == [self EXCEPT !.left = left_left_tree]
            \* line 94
            self2            == [self1 EXCEPT !.value = new_right_tree0[1].value]
            new_right_node0  == [new_right_tree0[1] EXCEPT !.value = self1.value]
            \* line 96
            right_tree       == self2.right
            self3            == [self2 EXCEPT !.right = None]
            \* lines 99-101
            new_right_node1  == [new_right_node0 EXCEPT !.left = left_right_tree]
            new_right_node2  == [new_right_node1 EXCEPT !.right = right_tree]
            self4            == [self3 EXCEPT !.right = Some(new_right_node2)]
            \* lines 103-105
            self5            == [self4 EXCEPT !.right = Some(update_height(self4.right[1]))]
        IN  \* line 107
            [node |-> update_height(self5), ret |-> TRUE]

\* rebalance that never rotates the heavy child first
rebalance_single_only(self) ==
    CASE balance_factor(self) = -2 -> [node |-> rotate_left(self).node, ret |-> TRUE]
      [] balance_factor(self) = 2  -> [node |-> rotate_right(self).node, ret |-> TRUE]
      [] OTHER -> [node |-> self, ret |-> FALSE]

\* With heights below 128 a balance factor of -2 (2) means the right (left)
\* child exists, so the unwrap of line 115 (126) does not panic.
rebalance(self) ==
    CASE balance_factor(self) = -2 ->
            LET right_node == self.right[1]
                self1 == IF balance_factor(right_node) = 1
                         THEN [self EXCEPT !.right = Some(rotate_right(right_node).node)]
                         ELSE self
            IN  [node |-> rotate_left(self1).node, ret |-> TRUE]
      [] balance_factor(self) = 2 ->
            LET left_node == self.left[1]
                self1 == IF balance_factor(left_node) = -1
                         THEN [self EXCEPT !.left = Some(rotate_left(left_node).node)]
                         ELSE self
            IN  [node |-> rotate_right(self1).node, ret |-> TRUE]
      [] OTHER -> [node |-> self, ret |-> FALSE]

(***************************************************************************)
(* AvlTreeSet, lib.rs:141-166 and 210-220.                                 *)
(***************************************************************************)
\* Ord::cmp on the value type
cmp(a, b) ==
    IF a < b THEN "Less" ELSE IF a = b THEN "Equal" ELSE "Greater"

\* the node of lines 157-162
NewLeaf(value) == AvlNode(value, None, None, 0)

\* insert that stores an equal value again, in the right subtree
RECURSIVE insert_at_dup(_, _)
insert_at_dup(current_tree, value) ==
    IF current_tree = None
    THEN [tree |-> Some(NewLeaf(value)), ret |-> TRUE]
    ELSE
        LET current_node == current_tree[1]
            c == cmp(current_node.value, value)
        IN  IF c = "Greater"
            THEN LET r == insert_at_dup(current_node.left, value)
                 IN  [tree |-> Some([current_node EXCEPT !.left = r.tree]),
                      ret |-> r.ret]
            ELSE LET r == insert_at_dup(current_node.right, value)
                 IN  [tree |-> Some([current_node EXCEPT !.right = r.tree]),
                      ret |-> r.ret]

\* insert that, on an equal value, recomputes the height of the node it found
RECURSIVE insert_at_touch(_, _)
insert_at_touch(current_tree, value) ==
    IF current_tree = None
    THEN [tree |-> Some(NewLeaf(value)), ret |-> TRUE]
    ELSE
        LET current_node == current_tree[1]
            c == cmp(current_node.value, value)
        IN  IF c = "Less"
            THEN LET r == insert_at_touch(current_node.right, value)
                 IN  [tree |-> Some([current_node EXCEPT !.right = r.tree]),
                      ret |-> r.ret]
            ELSE IF c = "Equal"
            THEN [tree |-> Some(update_height(current_node)), ret |-> FALSE]
            ELSE LET r == insert_at_touch(current_node.left, value)
                 IN  [tree |-> Some([current_node EXCEPT !.left = r.tree]),
                      ret |-> r.ret]

\* insert that descends to the wrong side
RECURSIVE insert_at_flipped(_, _)
insert_at_flipped(current_tree, value) ==
    IF current_tree = None
    THEN [tree |-> Some(NewLeaf(value)), ret |-> TRUE]
    ELSE
        LET current_node == current_tree[1]
            c == cmp(current_node.value, value)
        IN  IF c = "Less"
            THEN LET r == insert_at_flipped(current_node.left, value)
                 IN  [tree |-> Some([current_node EXCEPT !.left = r.tree]),
                      ret |-> r.ret]
            ELSE IF c = "Equal"
            THEN [tree |-> current_tree, ret |-> FALSE]
            ELSE LET r == insert_at_flipped(current_node.right, value)
                 IN  [tree |-> Some([current_node EXCEPT !.right = r.tree]),
                      ret |-> r.ret]

\* The loop of lines 147-155 moves the cursor current_tree down from the root
\* until it is an empty tree, which lines 157-162 overwrite with the new
\* leaf.  insert_at is that walk from the cursor's position on: the tree at
\* the cursor after the call, and the value insert returns.
RECURSIVE insert_at(_, _)
insert_at(current_tree, value) ==
    IF current_tree = None
    THEN [tree |-> Some(NewLeaf(value)), ret |-> TRUE]
    ELSE
        LET current_node == current_tree[1]
            c == cmp(current_node.value, value)
        IN  IF c = "Less"
            THEN LET r == insert_at(current_node.right, value)
                 IN  [tree |-> Some([current_node EXCEPT !.right = r.tree]),
                      ret |-> r.ret]
            ELSE IF c = "Equal"
            THEN [tree |-> current_tree, ret |-> FALSE]
            ELSE LET r == insert_at(current_node.left, value)
                 IN  [tree |-> Some([current_node EXCEPT !.left = r.tree]),
                      ret |-> r.ret]

\* AvlTreeSet::new, line 143
new == None

\* the loop of from_iter, lines 214-216, on the set built so far
RECURSIVE from_iter_loop(_, _)
from_iter_loop(set, input) ==
    IF input = <<>> THEN set
    ELSE from_iter_loop(insert_at(set, Head(input)).tree, Tail(input))

from_iter(input) == from_iter_loop(new, input)

(***************************************************************************)
(* AvlTreeSetIter, lib.rs:168-208.  prev_nodes is the stack of borrowed    *)
(* nodes (the set is not mutated while the iterator lives, so a borrowed   *)
(* node is the node's value), current_tree the borrowed cursor.            *)
(***************************************************************************)
\* AvlTreeSet::iter and the struct literal it builds
new_iter(tree) == [prev_nodes |-> <<>>, current_tree |-> tree]

\* next() that forgets the right subtree of a popped node
RECURSIVE next_skip_right(_)
next_skip_right(self) ==
    IF self.current_tree # None
    THEN
        LET current_node == self.current_tree[1]
        IN  IF current_node.left # None
            THEN next_skip_right([prev_nodes |-> Append(self.prev_nodes, current_node),
                                current_tree |-> current_node.left])
            ELSE [self |-> [self EXCEPT !.current_tree = current_node.right],
                  item |-> Some(current_node.value)]
    ELSE
        IF self.prev_nodes # <<>>
        THEN
            LET n == Len(self.prev_nodes)
                prev_node == self.prev_nodes[n]
            IN  [self |-> [prev_nodes |-> SubSeq(self.prev_nodes, 1, n - 1),
                           current_tree |-> None],
                 item |-> Some(prev_node.value)]
        ELSE [self |-> self, item |-> None]

\* One call of next(): the loop of lines 172-197 run until it returns.
RECURSIVE next(_)
next(self) ==
    IF self.current_tree # None
    THEN
        LET current_node == self.current_tree[1]
        IN  IF current_node.left # None
            THEN \* lines 175-179: push, go left, continue
                 next([prev_nodes |-> Append(self.prev_nodes, current_node),
                       current_tree |-> current_node.left])
            ELSE IF current_node.right # None
            THEN \* lines 181-184
                 [self |-> [self EXCEPT !.current_tree = current_node.right],
                  item |-> Some(current_node.value)]
            ELSE \* lines 186-187
                 [self |-> [self EXCEPT !.current_tree = None],
                  item |-> Some(current_node.value)]
    ELSE
        IF self.prev_nodes # <<>>
        THEN \* lines 190-193: pop
            LET n == Len(self.prev_nodes)
                prev_node == self.prev_nodes[n]
            IN  [self |-> [prev_nodes |-> SubSeq(self.prev_nodes, 1, n - 1),
                           current_tree |-> prev_node.right],
                 item |-> Some(prev_node.value)]
        ELSE \* line 194
            [self |-> self, item |-> None]

(***************************************************************************)
(* Input trees.  AvlNode and its fields are public, so a caller can hand   *)
(* any node to the node methods.  No node method and no iterator step      *)
(* compares values, so a tree's values only name its nodes: they are given *)
(* distinct values, in in-order or in pre-order position.                  *)
(***************************************************************************)
\* every tree of n nodes whose cached heights are drawn from H, values 0
RECURSIVE TreesOfSize(_, _)
TreesOfSize(n, H) ==
    IF n = 0 THEN {None}
    ELSE UNION {{Some(AvlNode(0, l, r, h)) :
                    l \in TreesOfSize(k, H), r \in TreesOfSize(n - 1 - k, H), h \in H} :
                k \in 0..(n - 1)}

\* every tree of height exactly h (absent 0, leaf 1) in balance at every
\* node, each cached height what update_height stores there, values 0
RECURSIVE Balanced(_)
Balanced(h) ==
    IF h = 0 THEN {None}
    ELSE LET pairs == ({h - 1} \X {h - 1})
                      \cup (IF h >= 2 THEN {<<h - 1, h - 2>>, <<h - 2, h - 1>>} ELSE {})
         IN  UNION {{Some(AvlNode(0, l, r, h)) : l \in Balanced(p[1]), r \in Balanced(p[2])} :
                    p \in pairs}

\* nodes whose children are such trees with heights differing by 2
OutOfBalance ==
    UNION {{Some(AvlNode(0, l, r, k + 3)) : l \in Balanced(k + 2), r \in Balanced(k)}
           \cup {Some(AvlNode(0, l, r, k + 3)) : l \in Balanced(k), r \in Balanced(k + 2)} :
           k \in 0..MaxK}

\* t with its nodes' values replaced by 10 * (k + 1), 10 * (k + 2), ... in in-order
RECURSIVE LabelInOrder(_, _)
LabelInOrder(t, k) ==
    IF t = None THEN None
    ELSE LET nl == Size(t[1].left)
         IN  Some([t[1] EXCEPT !.value = 10 * (k + nl + 1),
                               !.left = LabelInOrder(t[1].left, k),
                               !.right = LabelInOrder(t[1].right, k + nl + 1)])

\* the same in pre-order: such a tree is not a search tree
RECURSIVE LabelPreOrder(_, _)
LabelPreOrder(t, k) ==
    IF t = None THEN None
    ELSE LET nl == Size(t[1].left)
         IN  Some([t[1] EXCEPT !.value = 10 * (k + 1),
                               !.left = LabelPreOrder(t[1].left, k + 1),
                               !.right = LabelPreOrder(t[1].right, k + 1 + nl)])

NodeInputs ==
    {LabelInOrder(t, 0) :
        t \in (UNION {TreesOfSize(n, 0..MaxH) : n \in 1..MaxNodes}) \cup OutOfBalance}

IterInputs ==
    LET shapes == UNION {TreesOfSize(n, {0}) : n \in 0..MaxIterNodes}
    IN  {LabelInOrder(t, 0) : t \in shapes} \cup {LabelPreOrder(t, 0) : t \in shapes}

\* the input sequences of from_iter
Inputs == UNION {[1..n -> Values] : n \in 0..MaxLen}

(***************************************************************************)
(* The set and its iterator as a state machine.                            *)
(***************************************************************************)
Init ==
    /\ root = new
    /\ hist = <<>>
    /\ op = "new"
    /\ arg = 0
    /\ ret = FALSE
    /\ pre = None
    /\ steps = 0
    /\ iter = None
    /\ out = <<>>
    /\ item = None
    /\ calls = 0

iterVars == <<iter, out, item, calls>>

\* let set = input.collect::<AvlTreeSet<_>>(), as the program's first step
FromIter(input) ==
    /\ op = "new"
    /\ iter = None
    /\ root' = from_iter(input)
    /\ hist' = input
    /\ op' = "from_iter"
    /\ pre' = None
    /\ UNCHANGED <<arg, ret, steps, iterVars>>

\* set.insert(value); the borrow checker rules it out while an iterator lives
Insert(value) ==
    /\ iter = None
    /\ Len(hist) < MaxLen
    /\ LET r == insert_at(root, value)
       IN  /\ root' = r.tree
           /\ ret' = r.ret
    /\ hist' = Append(hist, value)
    /\ op' = "insert"
    /\ arg' = value
    /\ pre' = root
    /\ UNCHANGED <<steps, iterVars>>

\* let it = set.iter()
Iter ==
    /\ iter = None
    /\ iter' = Some(new_iter(root))
    /\ out' = <<>>
    /\ item' = None
    /\ calls' = 0
    /\ UNCHANGED <<root, hist, op, arg, ret, pre, steps>>

\* it.next()
IterNext ==
    /\ iter # None
    /\ calls < Size(root) + MaxExtraCalls
    /\ LET r == next(iter[1])
       IN  /\ iter' = Some(r.self)
           /\ item' = r.item
           /\ out' = out \o r.item
    /\ calls' = calls + 1
    /\ UNCHANGED <<root, hist, op, arg, ret, pre, steps>>

\* the iterator goes out of scope
DropIter ==
    /\ iter # None
    /\ iter' = None
    /\ out' = <<>>
    /\ item' = None
    /\ calls' = 0
    /\ UNCHANGED <<root, hist, op, arg, ret, pre, steps>>

Next ==
    \/ \E input \in Inputs : FromIter(input)
    \/ \E value \in Values : Insert(value)
    \/ Iter
    \/ IterNext
    \/ DropIter

Spec == Init /\ [][Next]_vars

(***************************************************************************)
(* The node methods applied to a node a caller built.                      *)
(***************************************************************************)
InitNode ==
    /\ root \in NodeInputs
    /\ hist = <<>>
    /\ op = "new"
    /\ arg = 0
    /\ ret = FALSE
    /\ pre = None
    /\ steps = 0
    /\ iter = None
    /\ out = <<>>
    /\ item = None
    /\ calls = 0

\* root.update_height()
UpdateHeight ==
    /\ steps < MaxOps
    /\ root' = Some(update_height(root[1]))
    /\ ret' = FALSE
    /\ op' = "update_height"
    /\ pre' = root
    /\ steps' = steps + 1
    /\ UNCHANGED <<hist, arg, iterVars>>

\* root.rotate_left()
RotateLeft ==
    /\ steps < MaxOps
    /\ LET r == rotate_left(root[1])
       IN  /\ root' = Some(r.node)
           /\ ret' = r.ret
    /\ op' = "rotate_left"
    /\ pre' = root
    /\ steps' = steps + 1
    /\ UNCHANGED <<hist, arg, iterVars>>

\* root.rotate_right()
RotateRight ==
    /\ steps < MaxOps
    /\ LET r == rotate_right(root[1])
       IN  /\ root' = Some(r.node)
           /\ ret' = r.ret
    /\ op' = "rotate_right"
    /\ pre' = root
    /\ steps' = steps + 1
    /\ UNCHANGED <<hist, arg, iterVars>>

\* root.rebalance()
Rebalance ==
    /\ steps < MaxOps
    /\ LET r == rebalance(root[1])
       IN  /\ root' = Some(r.node)
           /\ ret' = r.ret
    /\ op' = "rebalance"
    /\ pre' = root
    /\ steps' = steps + 1
    /\ UNCHANGED <<hist, arg, iterVars>>

NextNode ==
    \/ UpdateHeight
    \/ RotateLeft
    \/ RotateRight
    \/ Rebalance

SpecNode == InitNode /\ [][NextNode]_vars

(***************************************************************************)
(* The iterator started on an arbitrary tree.                              *)
(***************************************************************************)
InitIter ==
    /\ root \in IterInputs
    /\ hist = <<>>
    /\ op = "new"
    /\ arg = 0
    /\ ret = FALSE
    /\ pre = None
    /\ steps = 0
    /\ iter = None
    /\ out = <<>>
    /\ item = None
    /\ calls = 0

NextIter ==
    \/ Iter
    \/ IterNext
    \/ DropIter

SpecIter == InitIter /\ [][NextIter]_vars

(***************************************************************************)
(* Properties.                                                             *)
(***************************************************************************)
Front(s) == SubSeq(s, 1, Len(s) - 1)

Abs(n) == IF n >= 0 THEN n ELSE 0 - n

\* C1: a set built by inserting the input values in order (from_iter, or
\* insert after insert) iterates as the reference ordered set of the same
\* input does: once the iterator has been called more often than there are
\* distinct input values it has returned None, and whenever it has returned
\* None it has produced exactly the distinct input values, each once, in
\* strictly ascending order.
IteratorParity ==
    iter # None =>
        /\ calls > Cardinality(Range(hist)) => item = None
        /\ (calls > 0 /\ item = None) => out = SortedSeq(Range(hist))

IteratorParityWitness ==
    /\ iter # None
    /\ calls > 0
    /\ item = None
    /\ Len(hist) > Cardinality(Range(hist))
    /\ Len(out) >= 3
    /\ op = "from_iter"
    /\ hist[1] > hist[2]

\* C2: insert(x) returns true exactly when x was not a member before the call
\* (what the reference set built from the same calls answers), and x is a
\* member after the call.
InsertParity ==
    op = "insert" =>
        /\ arg = hist[Len(hist)]
        /\ ret = (arg \notin Members(pre))
        /\ ret = (arg \notin Range(Front(hist)))
        /\ arg \in Members(root)
        /\ Members(root) = Range(hist)

InsertParityWitness ==
    /\ op = "insert"
    /\ ret = FALSE
    /\ Size(pre) >= 3
    /\ arg # pre[1].value

\* C3: after any sequence of inserts, at every node the data-model heights
\* of the two subtrees (absent 0, leaf 0, else 1 + max) differ by at most 1.
AvlBalance ==
    \A t \in Subtrees(root) :
        Abs(TrueHeight(t[1].left) - TrueHeight(t[1].right)) <= 1

\* C4: after every insert, every node's cached height is the data-model
\* height of the subtree rooted at it.
HeightCorrect ==
    \A t \in Subtrees(root) : t[1].height = TrueHeight(t)

\* C5: insert of a value that is already a member returns false and leaves
\* the tree as it was, cached heights included; of two inserts of the same
\* value in a row the second changes nothing.
InsertIdempotent ==
    /\ (op = "insert" /\ arg \in Members(pre)) => (ret = FALSE /\ root = pre)
    /\ (op = "insert" /\ Len(hist) >= 2 /\ hist[Len(hist)] = hist[Len(hist) - 1])
          => (ret = FALSE /\ root = pre)

InsertIdempotentWitness ==
    /\ op = "insert"
    /\ Len(hist) >= 3
    /\ hist[Len(hist)] = hist[Len(hist) - 1]
    /\ Size(pre) >= 2
    /\ root = pre
    /\ arg # pre[1].value

\* the tree of C6: 20 at the root over the leaves 10 and 30
Root20 ==
    Some(AvlNode(20, Some(AvlNode(10, None, None, 0)), Some(AvlNode(30, None, None, 0)), 1))

\* C6: inserting 30, 20, 10 into an empty set gives root 20 with the leaves
\* 10 and 30 as children and consistent cached heights; inserting 10, 30, 20
\* gives the same shape.
ScenarioShapes ==
    /\ hist = <<30, 20, 10>> => (Strip(root) = Strip(Root20) /\ HeightCorrect)
    /\ hist = <<10, 30, 20>> => Strip(root) = Strip(Root20)

\* C7: started on any tree with an empty stack, the k-th call of next()
\* returns the k-th value of the recursive in-order walk, and every call
\* after the last value returns None.
IterInOrder ==
    iter # None =>
        LET w == InOrder(root)
            n == Len(w)
        IN  /\ out = SubSeq(w, 1, Min(calls, n))
            /\ calls > 0 => item = (IF calls <= n THEN Some(w[calls]) ELSE None)

IterInOrderWitness ==
    /\ iter # None
    /\ calls = Size(root) + 2
    /\ item = None
    /\ Size(root) >= 4
    /\ InOrder(root) # SortedSeq(Members(root))
    /\ root[1].left # None
    /\ root[1].left[1].right # None

\* the left rotation that relinks the nodes: the right child becomes the root
StdRotateLeft(t) ==
    LET a == t[1]
        b == a.right[1]
    IN  Some([b EXCEPT !.left = Some([a EXCEPT !.right = b.left])])

StdRotateRight(t) ==
    LET a == t[1]
        b == a.left[1]
    IN  Some([b EXCEPT !.right = Some([a EXCEPT !.left = b.right])])

\* C8: on a node with a right child rotate_left returns true and leaves the
\* shape and the values the relinking left rotation leaves: the old right
\* child's value at the root, the old root's value at the new left child,
\* whose children are the old left subtree and the old right child's left
\* subtree, and the old right child's right subtree on the right; the
\* in-order sequence is unchanged.  rotate_right mirrors it.
RotationEquiv ==
    /\ (op = "rotate_left" /\ pre[1].right # None) =>
          /\ ret = TRUE
          /\ Strip(root) = Strip(StdRotateLeft(pre))
          /\ InOrder(root) = InOrder(StdRotateLeft(pre))
          /\ InOrder(root) = InOrder(pre)
          /\ root[1].value = pre[1].right[1].value
          /\ root[1].left # None
          /\ root[1].left[1].value = pre[1].value
          /\ root[1].left[1].left = pre[1].left
          /\ root[1].left[1].right = pre[1].right[1].left
          /\ root[1].right = pre[1].right[1].right
    /\ (op = "rotate_right" /\ pre[1].left # None) =>
          /\ ret = TRUE
          /\ Strip(root) = Strip(StdRotateRight(pre))
          /\ InOrder(root) = InOrder(StdRotateRight(pre))
          /\ InOrder(root) = InOrder(pre)
          /\ root[1].value = pre[1].left[1].value
          /\ root[1].right # None
          /\ root[1].right[1].value = pre[1].value
          /\ root[1].right[1].right = pre[1].right
          /\ root[1].right[1].left = pre[1].left[1].right
          /\ root[1].left = pre[1].left[1].left

RotationEquivWitness ==
    /\ op = "rotate_left"
    /\ pre[1].left # None
    /\ pre[1].right # None
    /\ pre[1].right[1].left # None
    /\ pre[1].right[1].right # None
    /\ ret = TRUE

\* the height with an absent tree 0 and a leaf 1, the one update_height keeps
RECURSIVE RuleHeight(_)
RuleHeight(t) ==
    IF t = None THEN 0
    ELSE 1 + Max(RuleHeight(t[1].left), RuleHeight(t[1].right))

\* every node of t is within the +-1 bound, by its cached heights and by
\* the heights of its subtrees
InBalance(t) ==
    \A s \in Subtrees(t) :
        /\ balance_factor(s[1]) \in {-1, 0, 1}
        /\ Abs(RuleHeight(s[1].left) - RuleHeight(s[1].right)) <= 1

\* the precondition of C9
NeedsRebalance(t) ==
    /\ balance_factor(t[1]) \in {-2, 2}
    /\ InBalance(t[1].left)
    /\ InBalance(t[1].right)
    /\ \A s \in Subtrees(t) : update_height(s[1]) = s[1]

\* C9: on a node with balance factor -2 or +2 whose subtrees are in balance
\* and whose cached heights follow update_height's rule, rebalance returns
\* true, does the single rotation, or the double one when the heavy child
\* leans the other way by 1, and leaves the node with a balance factor in
\* {-1, 0, 1}, every node within the +-1 bound and the in-order sequence
\* as it was.
RebalanceRestores ==
    (op = "rebalance" /\ NeedsRebalance(pre)) =>
        /\ ret = TRUE
        /\ balance_factor(root[1]) \in {-1, 0, 1}
        /\ InBalance(root)
        /\ InOrder(root) = InOrder(pre)
        /\ balance_factor(pre[1]) = -2 =>
              Strip(root) =
                  IF balance_factor(pre[1].right[1]) = 1
                  THEN Strip(StdRotateLeft(
                           Some([pre[1] EXCEPT !.right = StdRotateRight(pre[1].right)])))
                  ELSE Strip(StdRotateLeft(pre))
        /\ balance_factor(pre[1]) = 2 =>
              Strip(root) =
                  IF balance_factor(pre[1].left[1]) = -1
                  THEN Strip(StdRotateRight(
                           Some([pre[1] EXCEPT !.left = StdRotateLeft(pre[1].left)])))
                  ELSE Strip(StdRotateRight(pre))

RebalanceRestoresWitness ==
    /\ op = "rebalance"
    /\ NeedsRebalance(pre)
    /\ balance_factor(pre[1]) = -2
    /\ balance_factor(pre[1].right[1]) = 1
    /\ pre[1].left # None
    /\ ret = TRUE

\* C10: update_height stores 0 in a node without children and 1 + max of the
\* children's cached heights (absent 0) otherwise, and changes nothing else.
UpdateHeightDataModel ==
    op = "update_height" =>
        LET self == pre[1]
            h == IF self.left = None /\ self.right = None
                 THEN 0
                 ELSE 1 + Max(left_height(self), right_height(self))
        IN  root = Some([self EXCEPT !.height = h])

====
